---- MODULE Spec2Model ----
(***************************************************************************)
(* A model of the first_worlds package: the procedural texture generators  *)
(* (textures.py), the metal/roughness channel packing (materials.py), the  *)
(* scene recipe persistence (recipe.py) and the prompt-to-style keyword     *)
(* matching (commands.py).                                                  *)
(*                                                                          *)
(* Numbers.  The noise code works on Python floats.  The model keeps every  *)
(* float as an exact fraction: a lattice value is k / RandomUnit, an        *)
(* interpolated sample is an integer over RandomUnit * m * m with           *)
(* m = max(1, size - 1), and the accumulated field is an integer over       *)
(* RandomUnit * m * m * 2^octaves.  The epsilon 1e-6 is 1 / EpsDen.         *)
(*                                                                          *)
(* Strings are sequences of one-character strings, so that lower(),        *)
(* strip() and the substring test are computed character by character.      *)
(***************************************************************************)
EXTENDS Integers, Sequences, FiniteSets, TLC

VARIABLES
    HAVE_PIL,   \* textures.py:19-23, materials.py:16-20: whether Pillow imported
    gp,         \* the running generate_pbr_like call
    vn,         \* the running make_value_noise call
    prevNoise,  \* the last make_value_noise call that returned (arguments, image)
    mat,        \* the running combine_metal_roughness_to_texture call
    rec,        \* a scene recipe being saved and loaded, and the file
    cmd,        \* the running infer_style_from_prompt call
    hist        \* a History, the state its actions edit, and its last call

vars == <<HAVE_PIL, gp, vn, prevNoise, mat, rec, cmd, hist>>

texOthers == <<mat, rec, cmd, hist>>               \* what the texture generators leave alone
matOthers == <<gp, vn, prevNoise, rec, cmd, hist>> \* what the channel packing leaves alone
recOthers == <<HAVE_PIL, gp, vn, prevNoise, mat, cmd, hist>>
cmdOthers == <<HAVE_PIL, gp, vn, prevNoise, mat, rec, hist>>
histOthers == <<HAVE_PIL, gp, vn, prevNoise, mat, rec, cmd>>

----------------------------------------------------------------------------
(* Bounds of the model *)

MaxSize == 5        \* image sides 1 .. MaxSize, besides the two below
MaxOctaves == 3     \* octave counts 1 .. MaxOctaves of a direct make_value_noise call
MaxSeed == 2        \* integer seeds 0 .. MaxSeed
MaxPackSide == 2    \* widths and heights 1 .. MaxPackSide of the images to pack
MaxObjects == 2     \* a scene recipe holds 0 .. MaxObjects objects
MaxWords == 2       \* a prompt is 0 .. MaxWords words
RandomUnit == 4     \* a random value is k / RandomUnit, k in 0 .. 3

(* Program constants *)

EpsDen == 1000000   \* 1e-6 = 1 / EpsDen
StoneOctaves == 4   \* octaves=4 of the stone style
CheckerSquares == 8 \* squares=8 of the checker style

NoSeed == 0 - 1     \* seed=None

\* The sides the model generates: the small ones, and the sides at which the
\* checker blocks are first 1 and first 2 pixels wide for all eight squares
\* (there the first octaves of the noise have lattice steps 2 and 4)
Sizes == (1 .. MaxSize) \cup {CheckerSquares, 2 * CheckerSquares}
Seeds == {NoSeed} \cup (0 .. MaxSeed)

Max2(a, b) == IF a >= b THEN a ELSE b
Min2(a, b) == IF a <= b THEN a ELSE b

RECURSIVE Pow2(_)
Pow2(n) == IF n = 0 THEN 1 ELSE 2 * Pow2(n - 1)

----------------------------------------------------------------------------
(* Images *)

Coords(size) == (0 .. size[1] - 1) \X (0 .. size[2] - 1)

NoPixels == [p \in {} |-> 0]

\* A Pillow image: its pixels px (indexed <<x, y>>), and the library filters
\* applied to them whose kernels the repository does not define (ops).
\* A _FakeImage has a size and a mode only.
NoImage == [size |-> <<0, 0>>, mode |-> "none", fake |-> TRUE, px |-> NoPixels, ops |-> <<>>]

ImageNew(mode, size, color) ==
    IF HAVE_PIL
    THEN [size |-> size, mode |-> mode, fake |-> FALSE,
          px |-> [p \in Coords(size) |-> color], ops |-> <<>>]
    ELSE [size |-> size, mode |-> mode, fake |-> TRUE, px |-> NoPixels, ops |-> <<>>]

Black(mode) == IF mode = "L" THEN 0 ELSE <<0, 0, 0>>

ImageFilter(img, name) ==
    IF img.fake THEN img ELSE [img EXCEPT !.ops = Append(@, name)]

ImagePointPlus15(img) ==
    IF img.fake THEN img
    ELSE [img EXCEPT !.px = [p \in DOMAIN img.px |-> Min2(255, img.px[p] + 15)]]

ImageMergeRGB(r, g, b) ==
    [size |-> r.size, mode |-> "RGB", fake |-> FALSE,
     px |-> [p \in DOMAIN r.px |-> <<r.px[p], g.px[p], b.px[p]>>], ops |-> <<>>]

TextureMaps(albedo, roughness, metalness, normal_like) ==
    [albedo |-> albedo, roughness |-> roughness,
     metalness |-> metalness, normal_like |-> normal_like]

NoMaps == TextureMaps(NoImage, NoImage, NoImage, NoImage)

\* A Panda3D texture: its size and its texels, indexed <<x, y>> from the bottom row
NoTexture == [size |-> <<0, 0>>, xel |-> NoPixels]

\* No recipe is being saved or loaded and the file does not exist
IdleRec == [pc |-> "idle", scene |-> <<>>, data |-> <<>>, file |-> <<>>, loaded |-> <<>>]

\* No infer_style_from_prompt call is running
IdleCmd ==
    [pc |-> "idle", prompt |-> <<>>, default |-> <<>>, text |-> <<>>, i |-> 0,
     result |-> <<>>]

\* No History method has been called yet
NoCall ==
    [op |-> "none", outcome |-> "none", callbacks |-> 0,
     done |-> <<>>, undone |-> <<>>, state |-> <<>>]

\* history.py:20-22: History() with both stacks empty, beside the state its
\* actions edit (state), that state at creation or at the last clear (base),
\* whether every callback so far returned and every applied action's undo
\* reverses its do (clean), the calls made (calls) and the last call with the
\* stacks and the state before it (last)
NewHistory ==
    [done |-> <<>>, undone |-> <<>>, state |-> <<>>, base |-> <<>>,
     clean |-> TRUE, calls |-> 0, last |-> NoCall]

\* No combine_metal_roughness_to_texture call is running
IdleMat ==
    [pc |-> "idle", roughness_img |-> NoImage, metalness_img |-> NoImage,
     combo |-> NoImage, outcome |-> "none", texture |-> NoTexture]

----------------------------------------------------------------------------
(* random.Random (textures.py:98, 104).  The generator is Python's library  *)
(* code; what the repository relies on is that Random(seed) starts a stream *)
(* that is a function of the seed and that every random() call advances it. *)
(* The model keeps that with a small congruential generator whose outputs   *)
(* are k / RandomUnit, k in 0 .. 3.  Random(None) seeds itself from system  *)
(* entropy: the model draws the entropy from 0 .. MaxSeed at the call.      *)

RngSeed(seed) == (13 * seed + 5) % 64

RngStep(s) == (37 * s + 11) % 64

RngOutput(s) == s \div 16

RECURSIVE RngAdvance(_, _)
RngAdvance(s, n) == IF n = 0 THEN s ELSE RngAdvance(RngStep(s), n - 1)

\* grid = [[rng.random() for _ in range(step + 1)] for _ in range(step + 1)]
\* drawn from generator state s: row by row, grid[r][c] is draw (r-1)(step+1)+c.
DrawGrid(s, step) ==
    [r \in 1 .. step + 1 |->
        [c \in 1 .. step + 1 |-> RngOutput(RngAdvance(s, (r - 1) * (step + 1) + c))]]

\* lerp(a, b, t) with t = tn / m, times m
Lerp(a, b, tn, m) == a * (m - tn) + b * tn

\* noise_grid(step): the bilinear sample at pixel <<xi, yi>>, times m * m
NoiseSample(grid, step, size, xi, yi) ==
    LET m == Max2(1, size - 1)
        y0 == (yi * step) \div m
        y1 == Min2(step, y0 + 1)
        tyn == (yi * step) % m
        x0 == (xi * step) \div m
        x1 == Min2(step, x0 + 1)
        txn == (xi * step) % m
        v00 == grid[y0 + 1][x0 + 1]
        v10 == grid[y0 + 1][x1 + 1]
        v01 == grid[y1 + 1][x0 + 1]
        v11 == grid[y1 + 1][x1 + 1]
        a == Lerp(v00, v10, txn, m)
        b == Lerp(v01, v11, txn, m)
    IN  Lerp(a, b, tyn, m)

NoiseGrid(grid, step, size) ==
    [p \in Coords(<<size, size>>) |-> NoiseSample(grid, step, size, p[1], p[2])]

OctaveStep(size, frequency) == Max2(1, size \div (4 * frequency))

\* The denominator of the accumulated field
FieldUnit(size, octaves) ==
    LET m == Max2(1, size - 1) IN RandomUnit * m * m * Pow2(octaves)

SetMin(S) == CHOOSE v \in S : \A w \in S : v <= w
SetMax(S) == CHOOSE v \in S : \A w \in S : v >= w

\* the normalisation centring a field without range on mid-gray
ScalePixelCentred(d, R, D) ==
    IF R = 0 THEN 128
    ELSE LET q == (255 * d) \div R
             r == (255 * d) % R
             Enough(k) == k * R + r >= ((q - k) * D + EpsDen - 1) \div EpsDen
             k == CHOOSE j \in 0 .. q : Enough(j) /\ \A i \in 0 .. j - 1 : ~Enough(i)
         IN  q - k

\* int((v - min_v) * scale), scale = 255.0 / (max_v - min_v + 1e-6), for
\* v - min_v = d / D and max_v - min_v = R / D: the floor of
\* 255 d EpsDen / (R EpsDen + D).  With 255 d = q R + r this is q minus the
\* least k with (k R + r) EpsDen >= (q - k) D, which keeps every product small.
ScalePixel(d, R, D) ==
    IF R = 0 THEN 0
    ELSE LET q == (255 * d) \div R
             r == (255 * d) % R
             Enough(k) == k * R + r >= ((q - k) * D + EpsDen - 1) \div EpsDen
             k == CHOOSE j \in 0 .. q : Enough(j) /\ \A i \in 0 .. j - 1 : ~Enough(i)
         IN  q - k

IdleNoise ==
    [pc |-> "idle", caller |-> "none", size |-> 1, octaves |-> 1, seed |-> NoSeed,
     rng |-> 0, img |-> NoPixels, amplitude |-> 0, frequency |-> 0, i |-> 0,
     lattices |-> <<>>, steps |-> <<>>, out |-> NoImage]

\* make_value_noise creating Random() without passing the seed on
NoiseBeginUnseeded(caller, size, octaves, seed, entropy) ==
    [pc |-> "octave", caller |-> caller, size |-> size, octaves |-> octaves,
     seed |-> seed,
     rng |-> RngSeed(entropy),
     img |-> [p \in Coords(<<size, size>>) |-> 0],
     amplitude |-> Pow2(octaves), frequency |-> 1, i |-> 0,
     lattices |-> <<>>, steps |-> <<>>, out |-> NoImage]

\* textures.py:98 and 125-127: the generator, the zero field, amplitude 1.0
\* (kept as 2^octaves over 2^octaves) and frequency 1
NoiseBegin(caller, size, octaves, seed, entropy) ==
    [pc |-> "octave", caller |-> caller, size |-> size, octaves |-> octaves,
     seed |-> seed,
     rng |-> RngSeed(IF seed = NoSeed THEN entropy ELSE seed),
     img |-> [p \in Coords(<<size, size>>) |-> 0],
     amplitude |-> Pow2(octaves), frequency |-> 1, i |-> 0,
     lattices |-> <<>>, steps |-> <<>>, out |-> NoImage]

\* the octave loop drawing every lattice from a generator seeded afresh
NoiseOctaveReseeded(f) ==
    LET step == OctaveStep(f.size, f.frequency)
        fresh == RngSeed(f.seed)
        grid == DrawGrid(fresh, step)
        ng == NoiseGrid(grid, step, f.size)
    IN  [f EXCEPT !.rng = RngAdvance(fresh, (step + 1) * (step + 1)),
                  !.img = [p \in DOMAIN f.img |-> f.img[p] + f.amplitude * ng[p]],
                  !.amplitude = @ \div 2,
                  !.frequency = @ * 2,
                  !.i = @ + 1,
                  !.lattices = Append(@, grid),
                  !.steps = Append(@, step)]

\* textures.py:128-135: one pass of the octave loop
NoiseOctave(f) ==
    LET step == OctaveStep(f.size, f.frequency)
        grid == DrawGrid(f.rng, step)
        ng == NoiseGrid(grid, step, f.size)
    IN  [f EXCEPT !.rng = RngAdvance(@, (step + 1) * (step + 1)),
                  !.img = [p \in DOMAIN f.img |-> f.img[p] + f.amplitude * ng[p]],
                  !.amplitude = @ \div 2,
                  !.frequency = @ * 2,
                  !.i = @ + 1,
                  !.lattices = Append(@, grid),
                  !.steps = Append(@, step)]

\* textures.py:137-149: normalise to 0..255 and write the pixels
NoiseImage(f) ==
    LET vals == {f.img[p] : p \in DOMAIN f.img}
        min_v == SetMin(vals)
        max_v == SetMax(vals)
        D == FieldUnit(f.size, f.octaves)
        blank == ImageNew("L", <<f.size, f.size>>, 0)
    IN  IF HAVE_PIL
        THEN [blank EXCEPT !.px =
                 [p \in DOMAIN f.img |-> ScalePixel(f.img[p] - min_v, max_v - min_v, D)]]
        ELSE blank

NoPrev == [valid |-> FALSE, size |-> 1, octaves |-> 1, seed |-> NoSeed, out |-> NoImage]

Returned(f) ==
    [valid |-> TRUE, size |-> f.size, octaves |-> f.octaves, seed |-> f.seed, out |-> f.out]

----------------------------------------------------------------------------
(* Strings: str.lower() and str.strip() *)

UpperChars == <<"A", "B", "C", "D", "E", "F", "G", "H", "I", "J", "K", "L", "M",
                "N", "O", "P", "Q", "R", "S", "T", "U", "V", "W", "X", "Y", "Z">>
LowerChars == <<"a", "b", "c", "d", "e", "f", "g", "h", "i", "j", "k", "l", "m",
                "n", "o", "p", "q", "r", "s", "t", "u", "v", "w", "x", "y", "z">>
Whitespace == {" ", "\t", "\n"}

LowerChar(c) ==
    IF \E i \in DOMAIN UpperChars : UpperChars[i] = c
    THEN LowerChars[CHOOSE i \in DOMAIN UpperChars : UpperChars[i] = c]
    ELSE c

StrLower(str) == [i \in DOMAIN str |-> LowerChar(str[i])]

RECURSIVE StrLStrip(_)
StrLStrip(str) ==
    IF str # <<>> /\ Head(str) \in Whitespace THEN StrLStrip(Tail(str)) ELSE str

RECURSIVE StrRStrip(_)
StrRStrip(str) ==
    IF str # <<>> /\ str[Len(str)] \in Whitespace
    THEN StrRStrip(SubSeq(str, 1, Len(str) - 1))
    ELSE str

StrStrip(str) == StrRStrip(StrLStrip(str))

S_checker == <<"c", "h", "e", "c", "k", "e", "r">>
S_stone == <<"s", "t", "o", "n", "e">>
S_metal == <<"m", "e", "t", "a", "l">>

\* The style arguments the model calls generate_pbr_like with
StyleInputs ==
    {S_checker, S_stone, S_metal,
     <<"C", "h", "e", "c", "k", "e", "r", " ">>,
     <<" ", "S", "T", "O", "N", "E">>,
     <<"\t", "M", "e", "t", "a", "l", "\t">>,
     <<>>,
     <<" ">>,
     <<"b", "o", "g", "u", "s">>,
     <<"c", "h", "e", " ", "c", "k", "e", "r">>,
     <<"m", "e", "t", "a", "l", "s">>}

----------------------------------------------------------------------------
(* textures.py:66-89 and 152-190 *)

Gray(v) == <<v, v, v>>

\* make_checkerboard with the image cut to whole blocks
make_checkerboard_cut(size, squares, color_a, color_b) ==
    LET block == Max2(1, size \div squares)
    IN  ImageNew("RGB", <<block * squares, block * squares>>, color_a)

\* make_checkerboard with the parity test inverted
make_checkerboard_odd(size, squares, color_a, color_b) ==
    IF HAVE_PIL
    THEN LET block == Max2(1, size \div squares)
             img == ImageNew("RGB", <<size, size>>, color_a)
         IN  [img EXCEPT !.px =
                 [p \in DOMAIN img.px |->
                     IF ((p[1] \div block) + (p[2] \div block)) % 2 = 1
                     THEN color_a ELSE color_b]]
    ELSE ImageNew("RGB", <<size, size>>, Black("RGB"))

\* make_checkerboard(size, squares, color_a, color_b)
make_checkerboard(size, squares, color_a, color_b) ==
    IF HAVE_PIL
    THEN LET block == Max2(1, size \div squares)
             img == ImageNew("RGB", <<size, size>>, color_a)
         IN  [img EXCEPT !.px =
                 [p \in DOMAIN img.px |->
                     IF ((p[1] \div block) + (p[2] \div block)) % 2 = 0
                     THEN color_a ELSE color_b]]
    ELSE ImageNew("RGB", <<size, size>>, Black("RGB"))

\* textures.py:161-166
CheckerMaps(size) ==
    TextureMaps(make_checkerboard(size, CheckerSquares, Gray(220), Gray(40)),
                ImageNew("L", <<size, size>>, 160),
                ImageNew("L", <<size, size>>, 0),
                ImageNew("L", <<size, size>>, 128))

\* textures.py:182-187
MetalMaps(size) ==
    TextureMaps(ImageNew("RGB", <<size, size>>, Gray(128)),
                ImageNew("L", <<size, size>>, 50),
                ImageNew("L", <<size, size>>, 200),
                ImageNew("L", <<size, size>>, 128))

\* textures.py:170-180, from the noise image base
StoneMaps(size, base) ==
    IF HAVE_PIL
    THEN TextureMaps(ImageMergeRGB(base, ImagePointPlus15(base), base),
                     ImageFilter(base, "GaussianBlur(1.5)"),
                     ImageNew("L", <<size, size>>, 0),
                     ImageFilter(ImageFilter(base, "FIND_EDGES"), "point(min(255, int(p * 0.8)))"))
    ELSE TextureMaps(ImageNew("RGB", <<size, size>>, Black("RGB")),
                     ImageNew("L", <<size, size>>, 0),
                     ImageNew("L", <<size, size>>, 0),
                     ImageNew("L", <<size, size>>, 0))

\* textures.py:160
NormalizeStyle(style) == StrStrip(StrLower(style))

\* the unrecognized branch falling back to another style
FallbackStyleMetal == S_metal

\* textures.py:190: the style the unrecognized branch calls itself with
FallbackStyle == S_checker

IdleGen ==
    [pc |-> "idle", size |-> 1, asked |-> <<>>, style |-> <<>>, norm |-> <<>>,
     seed |-> NoSeed, depth |-> 0, base |-> NoImage, result |-> NoMaps]

----------------------------------------------------------------------------
(* The texture generators as a state machine.  A run is one call of        *)
(* generate_pbr_like or of make_value_noise with arguments drawn from the   *)
(* bounded sets, then make_value_noise called again with the arguments of   *)
(* the noise call that last returned.                                       *)

TexInit ==
    /\ HAVE_PIL \in BOOLEAN
    /\ gp = IdleGen
    /\ vn = IdleNoise
    /\ prevNoise = NoPrev
    /\ mat = IdleMat
    /\ rec = IdleRec
    /\ cmd = IdleCmd
    /\ hist = NewHistory

\* generate_pbr_like(size, style, seed) is entered
GenCall ==
    /\ gp.pc = "idle" /\ vn.pc = "idle" /\ ~prevNoise.valid
    /\ \E size \in Sizes, style \in StyleInputs, seed \in Seeds :
          gp' = [IdleGen EXCEPT !.pc = "entry", !.size = size, !.asked = style,
                                !.style = style, !.seed = seed]
    /\ UNCHANGED <<HAVE_PIL, vn, prevNoise, texOthers>>

\* textures.py:160-166
GenChecker ==
    /\ gp.pc = "entry"
    /\ NormalizeStyle(gp.style) = S_checker
    /\ gp' = [gp EXCEPT !.pc = "done", !.norm = NormalizeStyle(gp.style),
                        !.result = CheckerMaps(gp.size)]
    /\ UNCHANGED <<HAVE_PIL, vn, prevNoise, texOthers>>

\* textures.py:168-169: the stone style calls make_value_noise(size, 4, seed)
GenStoneNoise ==
    /\ gp.pc = "entry"
    /\ NormalizeStyle(gp.style) = S_stone
    /\ \E entropy \in 0 .. MaxSeed :
          vn' = NoiseBegin("stone", gp.size, StoneOctaves, gp.seed, entropy)
    /\ gp' = [gp EXCEPT !.pc = "noise", !.norm = NormalizeStyle(gp.style)]
    /\ UNCHANGED <<HAVE_PIL, prevNoise, texOthers>>

\* textures.py:170-180
GenStoneMaps ==
    /\ gp.pc = "noise"
    /\ vn.pc = "done"
    /\ gp' = [gp EXCEPT !.pc = "done", !.base = vn.out,
                        !.result = StoneMaps(gp.size, vn.out)]
    /\ prevNoise' = Returned(vn)
    /\ vn' = IdleNoise
    /\ UNCHANGED <<HAVE_PIL, texOthers>>

\* textures.py:182-187
GenMetal ==
    /\ gp.pc = "entry"
    /\ NormalizeStyle(gp.style) = S_metal
    /\ gp' = [gp EXCEPT !.pc = "done", !.norm = NormalizeStyle(gp.style),
                        !.result = MetalMaps(gp.size)]
    /\ UNCHANGED <<HAVE_PIL, vn, prevNoise, texOthers>>

\* textures.py:189-190: the call re-enters itself with the fallback style and
\* returns what that call returns
GenFallback ==
    /\ gp.pc = "entry"
    /\ NormalizeStyle(gp.style) \notin {S_checker, S_stone, S_metal}
    /\ gp' = [gp EXCEPT !.style = FallbackStyle, !.depth = @ + 1]
    /\ UNCHANGED <<HAVE_PIL, vn, prevNoise, texOthers>>

\* make_value_noise(size, octaves, seed) is entered by a caller of the module
NoiseCall ==
    /\ gp.pc = "idle" /\ vn.pc = "idle" /\ ~prevNoise.valid
    /\ \E size \in Sizes, octaves \in 1 .. MaxOctaves, seed \in Seeds,
          entropy \in 0 .. MaxSeed :
          vn' = NoiseBegin("direct", size, octaves, seed, entropy)
    /\ UNCHANGED <<HAVE_PIL, gp, prevNoise, texOthers>>

\* the same arguments again
NoiseCallAgain ==
    /\ gp.pc \in {"idle", "done"} /\ vn.pc = "idle" /\ prevNoise.valid
    /\ \E entropy \in 0 .. MaxSeed :
          vn' = NoiseBegin("direct", prevNoise.size, prevNoise.octaves,
                           prevNoise.seed, entropy)
    /\ UNCHANGED <<HAVE_PIL, gp, prevNoise, texOthers>>

\* textures.py:128-135
NoiseOctaveStep ==
    /\ vn.pc = "octave"
    /\ vn.i < vn.octaves
    /\ vn' = NoiseOctave(vn)
    /\ UNCHANGED <<HAVE_PIL, gp, prevNoise, texOthers>>

\* textures.py:137-149
NoiseNormalize ==
    /\ vn.pc = "octave"
    /\ vn.i = vn.octaves
    /\ vn' = [vn EXCEPT !.pc = "done", !.out = NoiseImage(vn)]
    /\ UNCHANGED <<HAVE_PIL, gp, prevNoise, texOthers>>

\* the direct caller takes the image
NoiseReturn ==
    /\ vn.pc = "done"
    /\ vn.caller = "direct"
    /\ prevNoise' = Returned(vn)
    /\ vn' = IdleNoise
    /\ UNCHANGED <<HAVE_PIL, gp, texOthers>>

TexNext ==
    \/ GenCall
    \/ GenChecker
    \/ GenStoneNoise
    \/ GenStoneMaps
    \/ GenMetal
    \/ GenFallback
    \/ NoiseCall
    \/ NoiseCallAgain
    \/ NoiseOctaveStep
    \/ NoiseNormalize
    \/ NoiseReturn

SpecTextures == TexInit /\ [][TexNext]_vars

----------------------------------------------------------------------------
(* Claims about the texture generators, checked under SpecTextures *)

MapsOf(m) == {m.albedo, m.roughness, m.metalness, m.normal_like}

Flat(img, v) ==
    /\ DOMAIN img.px = Coords(img.size)
    /\ \A p \in DOMAIN img.px : img.px[p] = v

\* C1: every generate_pbr_like call, with Pillow or with the placeholder
\* images, has a step to take until it returns (a branch at the entry, the
\* next octave or the normalisation of the stone noise, the stone maps), and
\* the four maps it returns all have size (size, size).
C1_MapSizes ==
    /\ gp.pc = "entry" => gp.depth \in {0, 1} /\ vn.pc = "idle"
    /\ gp.pc = "noise" =>
          /\ vn.caller = "stone" /\ vn.size = gp.size
          /\ vn.pc \in {"octave", "done"} /\ vn.i <= vn.octaves
    /\ gp.pc = "done" =>
          \A img \in MapsOf(gp.result) : img.size = <<gp.size, gp.size>>

C1_Witness ==
    /\ gp.pc = "done" /\ gp.norm = S_stone /\ gp.size = 3
    /\ gp.asked = S_checker \/ gp.asked = S_stone \/ gp.asked = S_metal
    /\ ~HAVE_PIL

\* C2: the result depends on the style argument only through its trimmed,
\* lower-cased form: a recognized form returns that style's maps at once, and
\* any other form returns the checker maps after exactly one fallback step.
C2_StyleDispatch ==
    gp.pc = "done" =>
        LET n == NormalizeStyle(gp.asked)
        IN  /\ n = S_checker => gp.result = CheckerMaps(gp.size) /\ gp.depth = 0
            /\ n = S_metal => gp.result = MetalMaps(gp.size) /\ gp.depth = 0
            /\ n = S_stone => gp.result = StoneMaps(gp.size, gp.base) /\ gp.depth = 0
            /\ n \notin {S_checker, S_metal, S_stone} =>
                  gp.result = CheckerMaps(gp.size) /\ gp.depth = 1

C2_Witness ==
    /\ gp.pc = "done" /\ HAVE_PIL /\ gp.depth = 1 /\ gp.size = 2
    /\ NormalizeStyle(gp.asked) = <<"b", "o", "g", "u", "s">>

NoisePixels == {vn.out.px[p] : p \in DOMAIN vn.out.px}

NoiseField == {vn.img[p] : p \in DOMAIN vn.img}

\* C5: every pixel make_value_noise writes lies in 0 .. 255, and when the
\* accumulated field is not flat the smallest pixel is 0 and the largest 255.
C5_FullRange ==
    (vn.pc = "done" /\ HAVE_PIL) =>
        /\ NoisePixels \subseteq 0 .. 255
        /\ SetMin(NoiseField) # SetMax(NoiseField) =>
              SetMin(NoisePixels) = 0 /\ SetMax(NoisePixels) = 255

SameArguments ==
    /\ prevNoise.valid
    /\ prevNoise.size = vn.size
    /\ prevNoise.octaves = vn.octaves
    /\ prevNoise.seed = vn.seed

\* C6 as stated: two make_value_noise calls with identical arguments, the
\* seed an integer or None, return pixel-identical images.
C6_Deterministic ==
    (vn.pc = "done" /\ vn.caller = "direct" /\ SameArguments) =>
        vn.out = prevNoise.out

\* C6 as amended: with an integer seed two make_value_noise calls with
\* identical arguments return pixel-identical images, the generator of a call
\* being made from its seed alone.
C6_DeterministicSeeded ==
    /\ (vn.pc = "done" /\ vn.caller = "direct" /\ SameArguments /\ vn.seed # NoSeed) =>
          vn.out = prevNoise.out
    /\ (vn.pc = "octave" /\ vn.i = 0 /\ vn.seed # NoSeed) => vn.rng = RngSeed(vn.seed)

C6_Witness ==
    /\ vn.pc = "done" /\ vn.caller = "direct" /\ SameArguments /\ vn.seed # NoSeed
    /\ HAVE_PIL
    /\ \E p \in DOMAIN vn.out.px : vn.out.px[p] # 0

RECURSIVE DrawsBefore(_, _)
\* the random() calls made by the first n octaves
DrawsBefore(steps, n) ==
    IF n = 0 THEN 0
    ELSE DrawsBefore(steps, n - 1) + (steps[n] + 1) * (steps[n] + 1)

\* C7 as stated: the lattice of every octave is what a generator freshly
\* seeded with the seed yields for that octave's step.
C7_SeedReusedPerOctave ==
    vn.seed # NoSeed =>
        \A i \in DOMAIN vn.lattices :
            vn.lattices[i] = DrawGrid(RngSeed(vn.seed), vn.steps[i])

\* C7 as amended: one generator is seeded once per call and shared by the
\* octaves: octave i has step max(1, size // (4 * 2^i)) and its lattice is the
\* next (step + 1)^2 values of the seed's stream after those the earlier
\* octaves drew, so only the first octave has the lattice of a fresh generator.
C7_StreamSharedByOctaves ==
    vn.seed # NoSeed =>
        \A i \in DOMAIN vn.lattices :
            /\ vn.steps[i] = Max2(1, vn.size \div (4 * Pow2(i - 1)))
            /\ vn.lattices[i] =
                  DrawGrid(RngAdvance(RngSeed(vn.seed), DrawsBefore(vn.steps, i - 1)),
                           vn.steps[i])

C7_Witness ==
    /\ vn.seed # NoSeed /\ Len(vn.lattices) = 3 /\ vn.size = 8
    /\ vn.steps[1] = 2 /\ vn.steps[2] = 1 /\ vn.steps[3] = 1
    /\ vn.lattices[2] # vn.lattices[3]

\* C8: the checker style returns the parity checkerboard of (220,220,220) and
\* (40,40,40) with blocks of max(1, size // 8), roughness 160, metalness 0 and
\* normal_like 128; the metal style returns albedo (128,128,128), roughness
\* 50, metalness 200 and normal_like 128.
C8_StyleTable ==
    (gp.pc = "done" /\ HAVE_PIL) =>
        /\ gp.norm = S_checker =>
              LET b == Max2(1, gp.size \div 8)
                  a == gp.result.albedo
              IN  /\ DOMAIN a.px = Coords(<<gp.size, gp.size>>)
                  /\ \A p \in DOMAIN a.px :
                        a.px[p] = IF ((p[1] \div b) + (p[2] \div b)) % 2 = 0
                                  THEN <<220, 220, 220>> ELSE <<40, 40, 40>>
                  /\ Flat(gp.result.roughness, 160)
                  /\ Flat(gp.result.metalness, 0)
                  /\ Flat(gp.result.normal_like, 128)
        /\ gp.norm = S_metal =>
              /\ Flat(gp.result.albedo, <<128, 128, 128>>)
              /\ Flat(gp.result.roughness, 50)
              /\ Flat(gp.result.metalness, 200)
              /\ Flat(gp.result.normal_like, 128)

C8_Witness ==
    /\ gp.pc = "done" /\ HAVE_PIL /\ gp.norm = S_checker /\ gp.size = 16
    /\ gp.result.albedo.px[<<1, 0>>] = <<220, 220, 220>>
    /\ gp.result.albedo.px[<<2, 0>>] = <<40, 40, 40>>
    /\ gp.result.albedo.px[<<3, 2>>] = <<220, 220, 220>>

DegenerateField == SetMin(NoiseField) = SetMax(NoiseField)

\* C11 as stated: when every accumulated value of make_value_noise is equal,
\* the image it returns is flat mid-gray (127 or 128 at every pixel).
C11_DegenerateMidGray ==
    (vn.pc = "done" /\ HAVE_PIL /\ DegenerateField) =>
        \E v \in {127, 128} : Flat(vn.out, v)

\* C11 as amended: a field of size 1 is always degenerate; when every
\* accumulated value is equal the guarded divisor (range + 1e-6) is positive,
\* the call returns a grayscale image of size (size, size), and every pixel
\* Pillow writes is 0 (black); the placeholder image has no pixels.
C11_DegenerateBlack ==
    /\ (vn.pc \in {"octave", "done"} /\ vn.size = 1) => DegenerateField
    /\ (vn.pc = "done" /\ DegenerateField) =>
          /\ (SetMax(NoiseField) - SetMin(NoiseField)) * EpsDen
                 + FieldUnit(vn.size, vn.octaves) > 0
          /\ vn.out.size = <<vn.size, vn.size>> /\ vn.out.mode = "L"
          /\ IF HAVE_PIL THEN Flat(vn.out, 0)
                         ELSE vn.out.fake /\ vn.out.px = NoPixels

C11_Witness ==
    /\ vn.pc = "done" /\ HAVE_PIL /\ DegenerateField
    /\ vn.size = 1 /\ vn.octaves = 2
    /\ vn.img[<<0, 0>>] > 0
    /\ vn.out.px[<<0, 0>>] = 0

----------------------------------------------------------------------------
(* materials.py:31-66: packing roughness and metalness into one texture *)

\* Image.convert("L"): a grayscale image is copied; an RGB pixel becomes its
\* ITU-R 601-2 luma, which Pillow computes in 16-bit fixed point.
Luma(c) == (c[1] * 19595 + c[2] * 38470 + c[3] * 7471 + 32768) \div 65536

ConvertL(img) ==
    IF img.mode = "L" THEN img
    ELSE [img EXCEPT !.mode = "L", !.px = [p \in DOMAIN img.px |-> Luma(img.px[p])]]

\* Image.merge("RGBA", (r, g, b, a)): Pillow raises ValueError("size mismatch")
\* when a band's size differs from the first band's
MergeFails(r, g, b, a) == \E band \in {g, b, a} : band.size # r.size

\* the bands merged with roughness and metalness in each other's channel
ImageMergeRGBA_swapped(r, g, b, a) ==
    [size |-> r.size, mode |-> "RGBA", fake |-> FALSE,
     px |-> [p \in DOMAIN r.px |-> <<r.px[p], b.px[p], g.px[p], a.px[p]>>],
     ops |-> <<>>]

\* Image.merge("RGBA", (r, g, b, a)) of four bands of one size
ImageMergeRGBA(r, g, b, a) ==
    [size |-> r.size, mode |-> "RGBA", fake |-> FALSE,
     px |-> [p \in DOMAIN r.px |-> <<r.px[p], g.px[p], b.px[p], a.px[p]>>],
     ops |-> <<>>]

\* pil_to_panda_texture: the RGBA bytes row by row into a PNMImage whose row 0
\* is the bottom row; a channel value c / 255.0 is kept as c
pil_to_panda_texture(pil_image) ==
    LET w == pil_image.size[1]
        h == pil_image.size[2]
    IN  [size |-> <<w, h>>,
         xel |-> [q \in Coords(<<w, h>>) |-> pil_image.px[<<q[1], h - 1 - q[2]>>]]]

\* The images the model packs: every width and height up to MaxPackSide,
\* grayscale images that are flat or vary from pixel to pixel, and an RGB one
PackPatterns == {"flat50", "flat200", "ramp", "rgb"}

PackPixel(pattern, p) ==
    CASE pattern = "flat50" -> 50
      [] pattern = "flat200" -> 200
      [] pattern = "ramp" -> (160 + 40 * p[1] + 17 * p[2]) % 256
      [] pattern = "rgb" -> <<(30 * p[1]) % 256, 120, (200 + 50 * p[2]) % 256>>

PackImage(w, h, pattern) ==
    LET blank == ImageNew(IF pattern = "rgb" THEN "RGB" ELSE "L", <<w, h>>, 0)
    IN  IF blank.fake THEN blank
        ELSE [blank EXCEPT !.px = [p \in DOMAIN blank.px |-> PackPixel(pattern, p)]]

MatInit ==
    /\ HAVE_PIL \in BOOLEAN
    /\ gp = IdleGen
    /\ vn = IdleNoise
    /\ prevNoise = NoPrev
    /\ mat = IdleMat
    /\ rec = IdleRec
    /\ cmd = IdleCmd
    /\ hist = NewHistory

\* combine_metal_roughness_to_texture(roughness_img, metalness_img) is entered
MatCall ==
    /\ mat.pc = "idle"
    /\ \E w1 \in 1 .. MaxPackSide, h1 \in 1 .. MaxPackSide,
          w2 \in 1 .. MaxPackSide, h2 \in 1 .. MaxPackSide,
          k1 \in PackPatterns, k2 \in PackPatterns :
          mat' = [IdleMat EXCEPT !.pc = "pack",
                                 !.roughness_img = PackImage(w1, h1, k1),
                                 !.metalness_img = PackImage(w2, h2, k2)]
    /\ UNCHANGED <<HAVE_PIL, matOthers>>

\* materials.py:58-59
MatNoPil ==
    /\ mat.pc = "pack"
    /\ ~HAVE_PIL
    /\ mat' = [mat EXCEPT !.pc = "done", !.outcome = "None"]
    /\ UNCHANGED <<HAVE_PIL, matOthers>>

\* a packing that stretches a metalness image of another size instead of failing
MatMergeErrorResized ==
    /\ mat.pc = "pack"
    /\ HAVE_PIL
    /\ LET r == ImageNew("L", mat.roughness_img.size, 255)
           g == ConvertL(mat.roughness_img)
           b == ImageNew("L", mat.roughness_img.size, 0)
           a == ImageNew("L", mat.roughness_img.size, 255)
       IN  /\ mat.metalness_img.size # mat.roughness_img.size
           /\ mat' = [mat EXCEPT !.pc = "texture", !.combo = ImageMergeRGBA(r, g, b, a)]
    /\ UNCHANGED <<HAVE_PIL, matOthers>>

\* materials.py:61-65, Image.merge raising
MatMergeError ==
    /\ mat.pc = "pack"
    /\ HAVE_PIL
    /\ LET r == ImageNew("L", mat.roughness_img.size, 255)
           g == ConvertL(mat.roughness_img)
           b == ConvertL(mat.metalness_img)
           a == ImageNew("L", mat.roughness_img.size, 255)
       IN  /\ MergeFails(r, g, b, a)
           /\ mat' = [mat EXCEPT !.pc = "done", !.outcome = "ValueError: size mismatch"]
    /\ UNCHANGED <<HAVE_PIL, matOthers>>

\* materials.py:61-65, Image.merge returning
MatMerge ==
    /\ mat.pc = "pack"
    /\ HAVE_PIL
    /\ LET r == ImageNew("L", mat.roughness_img.size, 255)
           g == ConvertL(mat.roughness_img)
           b == ConvertL(mat.metalness_img)
           a == ImageNew("L", mat.roughness_img.size, 255)
       IN  /\ ~MergeFails(r, g, b, a)
           /\ mat' = [mat EXCEPT !.pc = "texture", !.combo = ImageMergeRGBA(r, g, b, a)]
    /\ UNCHANGED <<HAVE_PIL, matOthers>>

\* materials.py:66
MatTexture ==
    /\ mat.pc = "texture"
    /\ mat' = [mat EXCEPT !.pc = "done", !.outcome = "Texture",
                          !.texture = pil_to_panda_texture(mat.combo)]
    /\ UNCHANGED <<HAVE_PIL, matOthers>>

MatNext ==
    \/ MatCall
    \/ MatNoPil
    \/ MatMergeError
    \/ MatMerge
    \/ MatTexture

SpecMaterials == MatInit /\ [][MatNext]_vars

----------------------------------------------------------------------------
(* Claims about the channel packing, checked under SpecMaterials *)

SizesDiffer == mat.roughness_img.size # mat.metalness_img.size

\* C3 as stated: packing images of different sizes fails with an error and
\* produces no packed image.
C3_MismatchRaises ==
    (mat.pc = "done" /\ SizesDiffer) =>
        /\ mat.outcome = "ValueError: size mismatch"
        /\ mat.combo = NoImage /\ mat.texture = NoTexture

\* C3 as amended: packing images of different sizes never produces a packed
\* image or a texture; with Pillow the call fails with the merge's size
\* mismatch error, and without Pillow it returns None without any error.
C3_MismatchNeverPacked ==
    /\ SizesDiffer => mat.combo = NoImage /\ mat.texture = NoTexture
    /\ (mat.pc = "done" /\ SizesDiffer /\ HAVE_PIL) =>
          mat.outcome = "ValueError: size mismatch"
    /\ (mat.pc = "done" /\ SizesDiffer /\ ~HAVE_PIL) => mat.outcome = "None"

C3_Witness ==
    /\ mat.pc = "done" /\ SizesDiffer /\ HAVE_PIL
    /\ mat.roughness_img.size = <<2, 2>> /\ mat.metalness_img.size = <<1, 1>>

\* C4: for grayscale roughness and metalness images of equal size the packed
\* image has that size and at every pixel R = 255, G = the roughness value,
\* B = the metalness value and A = 255.
C4_PackedChannels ==
    (mat.pc \in {"texture", "done"} /\ mat.outcome # "None"
       /\ ~SizesDiffer /\ mat.roughness_img.mode = "L" /\ mat.metalness_img.mode = "L") =>
        /\ mat.combo.size = mat.roughness_img.size
        /\ DOMAIN mat.combo.px = Coords(mat.roughness_img.size)
        /\ \A p \in DOMAIN mat.combo.px :
              mat.combo.px[p] = <<255, mat.roughness_img.px[p], mat.metalness_img.px[p], 255>>

C4_Witness ==
    /\ mat.pc = "done" /\ mat.outcome = "Texture"
    /\ mat.roughness_img.size = <<2, 2>> /\ mat.metalness_img.size = <<2, 2>>
    /\ mat.roughness_img.mode = "L" /\ mat.metalness_img.mode = "L"
    /\ mat.roughness_img.px[<<1, 0>>] # mat.roughness_img.px[<<0, 1>>]
    /\ mat.roughness_img.px # mat.metalness_img.px

----------------------------------------------------------------------------
(* recipe.py: scene recipes and their JSON form.                            *)
(* A Python value is a record: t is its type, s its text (a string, or the  *)
(* name of a float that is not a number), n a number in tenths, items the   *)
(* members of a tuple or list.  A JSON document is built of the same         *)
(* records with the JSON types string, number, null and array; an object is *)
(* a function from its keys.                                                 *)

PyStr(s) == [t |-> "str", s |-> s, n |-> 0, items |-> <<>>]
PyNone == [t |-> "None", s |-> "", n |-> 0, items |-> <<>>]
PyFloat(n) == [t |-> "float", s |-> "", n |-> n, items |-> <<>>]
PyNaN == [t |-> "float", s |-> "nan", n |-> 0, items |-> <<>>]
PyInt(n) == [t |-> "int", s |-> "", n |-> n, items |-> <<>>]
PyTuple(items) == [t |-> "tuple", s |-> "", n |-> 0, items |-> items]
PyList(items) == [t |-> "list", s |-> "", n |-> 0, items |-> items]

\* Python's ==, two levels deep: a NaN equals nothing, a tuple equals only a
\* tuple with equal members, and the same for a list
PyEqScalar(a, b) == a = b /\ ~(a.t = "float" /\ a.s = "nan")

PyEq(a, b) ==
    IF a.t \in {"tuple", "list"}
    THEN /\ b.t = a.t
         /\ Len(b.items) = Len(a.items)
         /\ \A i \in DOMAIN a.items : PyEqScalar(a.items[i], b.items[i])
    ELSE PyEqScalar(a, b)

\* json.dumps of one value: a tuple or a list is written as an array, None as
\* null, a float as its shortest repr (NaN as the token NaN), an int as digits
JsonOfScalar(v) ==
    CASE v.t = "str" -> [v EXCEPT !.t = "string"]
      [] v.t = "None" -> [v EXCEPT !.t = "null"]
      [] v.t = "float" -> [v EXCEPT !.t = "number", !.s = IF v.s = "nan" THEN "NaN" ELSE "float"]
      [] v.t = "int" -> [v EXCEPT !.t = "number", !.s = "int"]

JsonOf(v) ==
    IF v.t \in {"tuple", "list"}
    THEN [t |-> "array", s |-> "", n |-> 0,
          items |-> [i \in DOMAIN v.items |-> JsonOfScalar(v.items[i])]]
    ELSE JsonOfScalar(v)

\* json.loads of one value: an array is read as a list
PyOfScalar(j) ==
    CASE j.t = "string" -> [j EXCEPT !.t = "str"]
      [] j.t = "null" -> [j EXCEPT !.t = "None"]
      [] j.t = "number" /\ j.s = "int" -> [j EXCEPT !.t = "int", !.s = ""]
      [] j.t = "number" /\ j.s = "NaN" -> [j EXCEPT !.t = "float", !.s = "nan"]
      [] j.t = "number" /\ j.s = "float" -> [j EXCEPT !.t = "float", !.s = ""]

PyOf(j) ==
    IF j.t = "array"
    THEN PyList([i \in DOMAIN j.items |-> PyOfScalar(j.items[i])])
    ELSE PyOfScalar(j)

\* tuple(x)
ToTuple(v) == [v EXCEPT !.t = "tuple"]

ObjectRecipe(name, model_path, position, hpr, scale, material_style) ==
    [name |-> name, model_path |-> model_path, position |-> position,
     hpr |-> hpr, scale |-> scale, material_style |-> material_style]

RecipeFields == {"name", "model_path", "position", "hpr", "scale", "material_style"}

\* recipe.py:29-32: to_json, the document {"objects": [asdict(o), ...]}
to_json(objects) ==
    [i \in DOMAIN objects |-> [k \in RecipeFields |-> JsonOf(objects[i][k])]]

\* dict.get(key, default) on a loaded JSON object
Get(o, key, default) == IF key \in DOMAIN o THEN PyOf(o[key]) ELSE default

Vec(a, b, c) == PyList(<<PyInt(a), PyInt(b), PyInt(c)>>)

\* from_json building the coordinates without tuple()
LoadObjectAsLists(o) ==
    ObjectRecipe(Get(o, "name", PyStr("object")),
                 Get(o, "model_path", PyNone),
                 Get(o, "position", Vec(0, 0, 0)),
                 Get(o, "hpr", Vec(0, 0, 0)),
                 Get(o, "scale", Vec(10, 10, 10)),
                 Get(o, "material_style", PyStr("checker")))

\* recipe.py:37-44: one ObjectRecipe of from_json
LoadObject(o) ==
    ObjectRecipe(Get(o, "name", PyStr("object")),
                 Get(o, "model_path", PyNone),
                 ToTuple(Get(o, "position", Vec(0, 0, 0))),
                 ToTuple(Get(o, "hpr", Vec(0, 0, 0))),
                 ToTuple(Get(o, "scale", Vec(10, 10, 10))),
                 Get(o, "material_style", PyStr("checker")))

\* recipe.py:35-45
from_json(data) == [i \in DOMAIN data |-> LoadObject(data[i])]

\* The objects the model builds recipes of: names and styles, a model path or
\* None, float and int coordinates, and a coordinate that is not a number
RecipeObjects ==
    {ObjectRecipe(PyStr(name), path, position, hpr, scale, PyStr(style)) :
        name \in {"cube", ""},
        path \in {PyNone, PyStr("models/box.glb")},
        position \in {PyTuple(<<PyFloat(10), PyFloat(20), PyFloat(30)>>),
                      PyTuple(<<PyNaN, PyFloat(0), PyFloat(0 - 15)>>)},
        hpr \in {PyTuple(<<PyFloat(100), PyFloat(200), PyFloat(300)>>)},
        scale \in {PyTuple(<<PyFloat(10), PyFloat(10), PyFloat(10)>>),
                   PyTuple(<<PyInt(20), PyInt(20), PyInt(20)>>)},
        style \in {"stone", "Bogus "}}

RECURSIVE SeqsUpTo(_, _)
SeqsUpTo(S, n) ==
    IF n = 0 THEN {<<>>}
    ELSE LET shorter == SeqsUpTo(S, n - 1)
         IN  shorter \cup {Append(q, x) : q \in {r \in shorter : Len(r) = n - 1}, x \in S}

RecInit ==
    /\ HAVE_PIL = TRUE
    /\ gp = IdleGen
    /\ vn = IdleNoise
    /\ prevNoise = NoPrev
    /\ mat = IdleMat
    /\ rec = IdleRec
    /\ cmd = IdleCmd
    /\ hist = NewHistory

\* a SceneRecipe is constructed
RecBuild ==
    /\ rec.pc = "idle"
    /\ \E objects \in SeqsUpTo(RecipeObjects, MaxObjects) :
          rec' = [rec EXCEPT !.pc = "built", !.scene = objects]
    /\ UNCHANGED recOthers

\* SceneRecipe.from_json(r.to_json())
RecRoundTrip ==
    /\ rec.pc = "built"
    /\ rec' = [rec EXCEPT !.pc = "done", !.data = to_json(rec.scene),
                          !.loaded = from_json(to_json(rec.scene))]
    /\ UNCHANGED recOthers

\* recipe.py:47-49: save writes to_json() to the file
RecSave ==
    /\ rec.pc = "built"
    /\ rec' = [rec EXCEPT !.pc = "saved", !.file = <<to_json(rec.scene)>>]
    /\ UNCHANGED recOthers

\* recipe.py:51-54: load reads the file and parses it
RecLoad ==
    /\ rec.pc = "saved"
    /\ rec' = [rec EXCEPT !.pc = "done", !.data = rec.file[1],
                          !.loaded = from_json(rec.file[1])]
    /\ UNCHANGED recOthers

RecNext ==
    \/ RecBuild
    \/ RecRoundTrip
    \/ RecSave
    \/ RecLoad

SpecRecipe == RecInit /\ [][RecNext]_vars

----------------------------------------------------------------------------
(* Claims about the recipes, checked under SpecRecipe *)

HasNaN(v) == \E i \in DOMAIN v.items : v.items[i].t = "float" /\ v.items[i].s = "nan"

\* C9 as stated: a recipe read back from its JSON has the same number of
\* objects in the same order, and every field of every object equals the
\* original's.
C9_RoundTrip ==
    rec.pc = "done" =>
        /\ Len(rec.loaded) = Len(rec.scene)
        /\ \A i \in DOMAIN rec.scene : \A k \in RecipeFields :
              PyEq(rec.loaded[i][k], rec.scene[i][k])

\* C9 as amended: a recipe read back from its JSON has the same number of
\* objects in the same order; every object's name, model_path and
\* material_style equal the original's, and so do its position, hpr and scale
\* unless one of their components is NaN, which is read back as NaN and so
\* as a value unequal to the original.
C9_RoundTripExceptNaN ==
    rec.pc = "done" =>
        /\ Len(rec.loaded) = Len(rec.scene)
        /\ \A i \in DOMAIN rec.scene : \A k \in RecipeFields :
              /\ ~HasNaN(rec.scene[i][k]) => PyEq(rec.loaded[i][k], rec.scene[i][k])
              /\ HasNaN(rec.scene[i][k]) =>
                    /\ rec.loaded[i][k] = rec.scene[i][k]
                    /\ ~PyEq(rec.loaded[i][k], rec.scene[i][k])

C9_Witness ==
    /\ rec.pc = "done" /\ Len(rec.scene) = 2 /\ rec.file # <<>>
    /\ rec.scene[1] # rec.scene[2]
    /\ rec.scene[1].model_path = PyNone
    /\ \A i \in DOMAIN rec.scene : ~HasNaN(rec.scene[i].position)

----------------------------------------------------------------------------
(* commands.py: keyword matching of a prompt *)

\* needle in text
Contains(text, needle) ==
    \E i \in 1 .. Len(text) - Len(needle) + 1 :
        SubSeq(text, i, i + Len(needle) - 1) = needle

\* commands.py:18-22: STYLE_KEYWORDS, in the order the dict is iterated
STYLE_KEYWORDS ==
    << [style |-> S_checker, keywords |-> <<<<"c", "h", "e", "c", "k", "e", "r">>, <<"g", "r", "i", "d">>>>],
       [style |-> S_stone, keywords |-> <<<<"s", "t", "o", "n", "e">>, <<"r", "o", "c", "k">>,
                                           <<"c", "o", "b", "b", "l", "e">>, <<"c", "o", "b", "b", "l", "e", "s", "t", "o", "n", "e">>>>],
       [style |-> S_metal, keywords |-> <<<<"m", "e", "t", "a", "l">>, <<"s", "t", "e", "e", "l">>, <<"c", "h", "r", "o", "m", "e">>>>] >>

\* any(k in text for k in keywords)
AnyKeyword(text, keywords) == \E j \in DOMAIN keywords : Contains(text, keywords[j])

\* commands.py:30-35: the adjectives tried once no style's keywords matched
AdjectiveStyle(text, default) ==
    IF Contains(text, <<"w", "e", "t">>)
       /\ (Contains(text, <<"s", "t", "o", "n", "e">>) \/ Contains(text, <<"c", "o", "b", "b", "l", "e">>))
    THEN S_stone
    ELSE IF Contains(text, <<"s", "h", "i", "n", "y">>) \/ Contains(text, <<"c", "h", "r", "o", "m", "e">>)
         THEN S_metal
         ELSE default

\* the prompt matched as typed, without lower()
PromptTextAsTyped(prompt) == prompt

\* commands.py:26
PromptText(prompt) == StrLower(prompt)

Vocabulary ==
    {<<"m", "a", "k", "e">>,
     <<"G", "r", "i", "d">>,
     <<"c", "h", "e", "c", "k", "e", "r", "e", "d">>,
     <<"r", "o", "c", "k", "e", "t">>,
     <<"C", "O", "B", "B", "L", "E">>,
     <<"c", "o", "b", "b", "l", "e", "s", "t", "o", "n", "e">>,
     <<"S", "t", "e", "e", "l">>,
     <<"c", "h", "r", "o", "m", "e">>,
     <<"m", "e", "t", "a", "l">>,
     <<"w", "e", "t">>,
     <<"s", "h", "i", "n", "y">>,
     <<"S", "H", "I", "N", "Y">>,
     <<"s", "t", "o", "n", "e">>,
     <<"f", "l", "o", "o", "r">>}

S_plain == <<"p", "l", "a", "i", "n">>

RECURSIVE Join(_)
\* " ".join(words)
Join(ws) ==
    IF ws = <<>> THEN <<>>
    ELSE IF Len(ws) = 1 THEN ws[1]
    ELSE ws[1] \o <<" ">> \o Join(Tail(ws))

Prompts == {Join(ws) : ws \in SeqsUpTo(Vocabulary, MaxWords)}

CmdInit ==
    /\ HAVE_PIL = TRUE
    /\ gp = IdleGen
    /\ vn = IdleNoise
    /\ prevNoise = NoPrev
    /\ mat = IdleMat
    /\ rec = IdleRec
    /\ cmd = IdleCmd
    /\ hist = NewHistory

\* infer_style_from_prompt(prompt, default) is entered; commands.py:26
CmdCall ==
    /\ cmd.pc = "idle"
    /\ \E prompt \in Prompts, default \in {S_checker, S_plain} :
          cmd' = [IdleCmd EXCEPT !.pc = "loop", !.prompt = prompt, !.default = default,
                                 !.text = PromptText(prompt), !.i = 1]
    /\ UNCHANGED cmdOthers

\* commands.py:27-29: the style under the loop has a keyword in the text
CmdMatch ==
    /\ cmd.pc = "loop"
    /\ cmd.i <= Len(STYLE_KEYWORDS)
    /\ AnyKeyword(cmd.text, STYLE_KEYWORDS[cmd.i].keywords)
    /\ cmd' = [cmd EXCEPT !.pc = "done", !.result = STYLE_KEYWORDS[cmd.i].style]
    /\ UNCHANGED cmdOthers

\* commands.py:27-28: it has none, the loop goes on
CmdNoMatch ==
    /\ cmd.pc = "loop"
    /\ cmd.i <= Len(STYLE_KEYWORDS)
    /\ ~AnyKeyword(cmd.text, STYLE_KEYWORDS[cmd.i].keywords)
    /\ cmd' = [cmd EXCEPT !.i = @ + 1]
    /\ UNCHANGED cmdOthers

\* commands.py:30-35: the loop is over
CmdAdjectives ==
    /\ cmd.pc = "loop"
    /\ cmd.i > Len(STYLE_KEYWORDS)
    /\ cmd' = [cmd EXCEPT !.pc = "done", !.result = AdjectiveStyle(cmd.text, cmd.default)]
    /\ UNCHANGED cmdOthers

CmdNext ==
    \/ CmdCall
    \/ CmdMatch
    \/ CmdNoMatch
    \/ CmdAdjectives

SpecCommands == CmdInit /\ [][CmdNext]_vars

----------------------------------------------------------------------------
(* Claims about the prompt matching, checked under SpecCommands *)

LoweredPrompt == StrLower(cmd.prompt)

Matching == {i \in DOMAIN STYLE_KEYWORDS : AnyKeyword(LoweredPrompt, STYLE_KEYWORDS[i].keywords)}

\* C10: with the default "checker" the result is one of checker, stone and
\* metal: the first style, in the order checker, stone, metal, one of whose
\* keywords occurs in the lower-cased prompt; if there is none, metal when
\* the lower-cased prompt contains "shiny"; otherwise the default.
C10_InferredStyle ==
    (cmd.pc = "done" /\ cmd.default = S_checker) =>
        /\ cmd.result \in {S_checker, S_stone, S_metal}
        /\ <<STYLE_KEYWORDS[1].style, STYLE_KEYWORDS[2].style, STYLE_KEYWORDS[3].style>>
              = <<S_checker, S_stone, S_metal>>
        /\ Matching # {} =>
              cmd.result = STYLE_KEYWORDS[CHOOSE i \in Matching : \A j \in Matching : i <= j].style
        /\ (Matching = {} /\ Contains(LoweredPrompt, <<"s", "h", "i", "n", "y">>)) =>
              cmd.result = S_metal
        /\ (Matching = {} /\ ~Contains(LoweredPrompt, <<"s", "h", "i", "n", "y">>)) =>
              cmd.result = cmd.default

C10_Witness ==
    /\ cmd.pc = "done" /\ cmd.default = S_checker
    /\ Matching = {}
    /\ Contains(cmd.prompt, <<"S", "H", "I", "N", "Y">>)
    /\ Contains(cmd.prompt, <<"w", "e", "t">>)
    /\ cmd.result = S_metal

----------------------------------------------------------------------------
(* history.py: the undo/redo stack.  An Action is a pair of callbacks that  *)
(* edit state outside the History.  The model's edited state is a document, *)
(* a sequence of entries: do() of an action appends the action's entry, and *)
(* undo() takes the last entry away again, or, for an action whose undo     *)
(* does not reverse its do, leaves the document alone.  A callback that     *)
(* raises does so before it has edited anything.                            *)

MaxCalls == 5       \* a run makes at most MaxCalls calls of History methods

ActionNames == {"a", "b"}

\* history.py:13-16
Actions == [name : ActionNames, reverses : BOOLEAN]

\* action.do()
Do(action, state) == Append(state, action.name)

\* action.undo()
Undo(action, state) ==
    IF action.reverses /\ state # <<>>
    THEN SubSeq(state, 1, Len(state) - 1)
    ELSE state

\* list.pop(): the popped element and the list left
Top(stack) == stack[Len(stack)]
Pop(stack) == SubSeq(stack, 1, Len(stack) - 1)

\* the call op entered with the stacks and the state as they are in h
Called(h, op) ==
    [op |-> op, outcome |-> "None", callbacks |-> 0,
     done |-> h.done, undone |-> h.undone, state |-> h.state]

\* History.apply that forgets to clear the redo stack
History_apply_keeps_undone(h, action, raises) ==
    IF raises
    THEN [h EXCEPT !.clean = FALSE, !.calls = @ + 1,
                   !.last = [Called(h, "apply") EXCEPT !.outcome = "raised",
                                                       !.callbacks = 1]]
    ELSE [h EXCEPT !.state = Do(action, @),
                   !.done = Append(@, action),
                   !.clean = @ /\ action.reverses, !.calls = @ + 1,
                   !.last = [Called(h, "apply") EXCEPT !.callbacks = 1]]

\* history.py:24-27; raises: action.do() raises
History_apply(h, action, raises) ==
    IF raises
    THEN [h EXCEPT !.clean = FALSE, !.calls = @ + 1,
                   !.last = [Called(h, "apply") EXCEPT !.outcome = "raised",
                                                       !.callbacks = 1]]
    ELSE [h EXCEPT !.state = Do(action, @),
                   !.done = Append(@, action),
                   !.undone = <<>>,
                   !.clean = @ /\ action.reverses, !.calls = @ + 1,
                   !.last = [Called(h, "apply") EXCEPT !.callbacks = 1]]

\* history.py:29-35; raises: action.undo() raises
History_undo(h, raises) ==
    IF h.done = <<>>
    THEN [h EXCEPT !.calls = @ + 1,
                   !.last = [Called(h, "undo") EXCEPT !.outcome = "False"]]
    ELSE LET action == Top(h.done)
         IN  IF raises
             THEN [h EXCEPT !.done = Pop(@),
                            !.clean = FALSE, !.calls = @ + 1,
                            !.last = [Called(h, "undo") EXCEPT !.outcome = "raised",
                                                              !.callbacks = 1]]
             ELSE [h EXCEPT !.done = Pop(@),
                            !.state = Undo(action, @),
                            !.undone = Append(@, action),
                            !.calls = @ + 1,
                            !.last = [Called(h, "undo") EXCEPT !.outcome = "True",
                                                              !.callbacks = 1]]

\* history.py:37-43; raises: action.do() raises
History_redo(h, raises) ==
    IF h.undone = <<>>
    THEN [h EXCEPT !.calls = @ + 1,
                   !.last = [Called(h, "redo") EXCEPT !.outcome = "False"]]
    ELSE LET action == Top(h.undone)
         IN  IF raises
             THEN [h EXCEPT !.undone = Pop(@),
                            !.clean = FALSE, !.calls = @ + 1,
                            !.last = [Called(h, "redo") EXCEPT !.outcome = "raised",
                                                              !.callbacks = 1]]
             ELSE [h EXCEPT !.undone = Pop(@),
                            !.state = Do(action, @),
                            !.done = Append(@, action),
                            !.calls = @ + 1,
                            !.last = [Called(h, "redo") EXCEPT !.outcome = "True",
                                                              !.callbacks = 1]]

\* history.py:45-47
History_clear(h) ==
    [h EXCEPT !.done = <<>>, !.undone = <<>>, !.base = h.state,
              !.calls = @ + 1, !.last = Called(h, "clear")]

----------------------------------------------------------------------------
(* The History as a state machine: its methods called in any order, every   *)
(* callback free to return or to raise.                                     *)

HistInit ==
    /\ HAVE_PIL = TRUE
    /\ gp = IdleGen
    /\ vn = IdleNoise
    /\ prevNoise = NoPrev
    /\ mat = IdleMat
    /\ rec = IdleRec
    /\ cmd = IdleCmd
    /\ hist = NewHistory

\* apply(action), action.do() returning
HistApply ==
    /\ hist.calls < MaxCalls
    /\ \E action \in Actions : hist' = History_apply(hist, action, FALSE)
    /\ UNCHANGED histOthers

\* apply(action), action.do() raising
HistApplyRaises ==
    /\ hist.calls < MaxCalls
    /\ \E action \in Actions : hist' = History_apply(hist, action, TRUE)
    /\ UNCHANGED histOthers

\* undo() on an empty done-stack
HistUndoEmpty ==
    /\ hist.calls < MaxCalls
    /\ hist.done = <<>>
    /\ \E raises \in BOOLEAN : hist' = History_undo(hist, raises)
    /\ UNCHANGED histOthers

\* undo(), action.undo() returning
HistUndo ==
    /\ hist.calls < MaxCalls
    /\ hist.done # <<>>
    /\ hist' = History_undo(hist, FALSE)
    /\ UNCHANGED histOthers

\* undo(), action.undo() raising
HistUndoRaises ==
    /\ hist.calls < MaxCalls
    /\ hist.done # <<>>
    /\ hist' = History_undo(hist, TRUE)
    /\ UNCHANGED histOthers

\* redo() on an empty redo stack
HistRedoEmpty ==
    /\ hist.calls < MaxCalls
    /\ hist.undone = <<>>
    /\ \E raises \in BOOLEAN : hist' = History_redo(hist, raises)
    /\ UNCHANGED histOthers

\* redo(), action.do() returning
HistRedo ==
    /\ hist.calls < MaxCalls
    /\ hist.undone # <<>>
    /\ hist' = History_redo(hist, FALSE)
    /\ UNCHANGED histOthers

\* redo(), action.do() raising
HistRedoRaises ==
    /\ hist.calls < MaxCalls
    /\ hist.undone # <<>>
    /\ hist' = History_redo(hist, TRUE)
    /\ UNCHANGED histOthers

\* clear()
HistClear ==
    /\ hist.calls < MaxCalls
    /\ hist' = History_clear(hist)
    /\ UNCHANGED histOthers

HistNext ==
    \/ HistApply
    \/ HistApplyRaises
    \/ HistUndoEmpty
    \/ HistUndo
    \/ HistUndoRaises
    \/ HistRedoEmpty
    \/ HistRedo
    \/ HistRedoRaises
    \/ HistClear

SpecHistory == HistInit /\ [][HistNext]_vars

----------------------------------------------------------------------------
(* Claims about the History, checked under SpecHistory *)

RECURSIVE Replay(_, _)
\* do() of the actions of a stack applied to a state, bottom to top
Replay(state, stack) ==
    IF stack = <<>> THEN state
    ELSE Do(Top(stack), Replay(state, Pop(stack)))

StacksAsBefore == hist.done = hist.last.done /\ hist.undone = hist.last.undone

\* C12: as long as no callback has raised and every applied action's undo
\* reverses its do, after every call the edited state is the state at the last
\* clear (or at creation) with do() of the done-stack's actions applied bottom
\* to top; after apply the redo stack is empty; undo and redo on an empty
\* stack return False, call no callback and change neither stack nor state.
C12_DoneStackConsistent ==
    hist.clean =>
        /\ hist.state = Replay(hist.base, hist.done)
        /\ hist.last.op = "apply" =>
              hist.undone = <<>> /\ hist.done # <<>> /\ hist.last.callbacks = 1
        /\ (hist.last.op = "undo" /\ hist.last.done = <<>>) =>
              /\ hist.last.outcome = "False" /\ hist.last.callbacks = 0
              /\ StacksAsBefore /\ hist.state = hist.last.state
        /\ (hist.last.op = "redo" /\ hist.last.undone = <<>>) =>
              /\ hist.last.outcome = "False" /\ hist.last.callbacks = 0
              /\ StacksAsBefore /\ hist.state = hist.last.state

C12_Witness ==
    /\ hist.clean
    /\ hist.last.op = "redo" /\ hist.last.outcome = "True"
    /\ hist.base = <<"a">>
    /\ hist.state = <<"a", "b">>
    /\ Len(hist.done) = 1 /\ hist.undone = <<>>

\* C13: when a callback raises inside apply, undo or redo, both stacks are
\* as they were before the call.
C13_RaiseKeepsStacks ==
    hist.last.outcome = "raised" => StacksAsBefore

====
